---- MODULE Spec2Model ----
(***************************************************************************)
(* Model of the plan-details screen, src/app/plan-details/[id].tsx:        *)
(* the component state (useState hooks), the asynchronous load sequence    *)
(* loadPlanDetails started by the useEffect on the route parameter id,     *)
(* the derivations getTemplateName, getPlanStatus, getDuration and         *)
(* getWorkoutsPerWeek, and the user-action handlers.                       *)
(***************************************************************************)
EXTENDS Integers, Sequences, FiniteSets, TLC

(***************************************************************************)
(* JavaScript values.  Objects are records; null, undefined and strings    *)
(* carry a tag so that values of different kinds can be compared.          *)
(***************************************************************************)
NULL == [t |-> "null"]
UNDEFINED == [t |-> "undefined"]
Str(s) == [t |-> "string", v |-> s]

\* JavaScript truthiness of null / undefined / string / object values
Truthy(v) ==
  IF "t" \notin DOMAIN v THEN TRUE
  ELSE IF v.t = "string" THEN v.v # ""
  ELSE FALSE

(***************************************************************************)
(* Calendar dates.  An ISO date string "YYYY-MM-DD" is the sequence of     *)
(* its ten character codes; strings compare by code unit, left to right.   *)
(***************************************************************************)
\* Times are counted in seconds where the code counts milliseconds (TLC's
\* integers have 32 bits); every time the code reads from a date-only string
\* is a whole number of seconds, and of the clock only the UTC day is used.
DayLength == 60 * 60 * 24
HalfDay == DayLength \div 2

Digit(n) == 48 + n
Dash == 45

\* "YYYY-MM-DD" for a civil date, zero padded
IsoDate(y, m, d) ==
  << Digit(y \div 1000), Digit((y \div 100) % 10), Digit((y \div 10) % 10), Digit(y % 10),
     Dash, Digit(m \div 10), Digit(m % 10),
     Dash, Digit(d \div 10), Digit(d % 10) >>

\* the civil date <<y, m, d>> of a day number counted from 1970-01-01 (UTC)
CivilFromDays(n) ==
  LET z == n + 719468
      era == z \div 146097
      doe == z - era * 146097
      yoe == (doe - doe \div 1460 + doe \div 36524 - doe \div 146096) \div 365
      doy == doe - (365 * yoe + yoe \div 4 - yoe \div 100)
      mp == (5 * doy + 2) \div 153
      d == doy - (153 * mp + 2) \div 5 + 1
      m == IF mp < 10 THEN mp + 3 ELSE mp - 9
      y == yoe + era * 400 + (IF m <= 2 THEN 1 ELSE 0)
  IN << y, m, d >>

\* the day number of a civil date
DaysFromCivil(y, m, d) ==
  LET yy == IF m <= 2 THEN y - 1 ELSE y
      era == yy \div 400
      yoe == yy - era * 400
      doy == (153 * (IF m > 2 THEN m - 3 ELSE m + 9) + 2) \div 5 + d - 1
      doe == yoe * 365 + yoe \div 4 - yoe \div 100 + doy
  IN era * 146097 + doe - 719468

\* new Date().toISOString().split('T')[0]
ToISODate(time) ==
  LET c == CivilFromDays(time \div DayLength) IN IsoDate(c[1], c[2], c[3])

\* new Date("YYYY-MM-DD").getTime(): a date-only string is parsed as UTC midnight
DateGetTime(s) ==
  LET y == (s[1] - 48) * 1000 + (s[2] - 48) * 100 + (s[3] - 48) * 10 + (s[4] - 48)
      m == (s[6] - 48) * 10 + (s[7] - 48)
      d == (s[9] - 48) * 10 + (s[10] - 48)
  IN DaysFromCivil(y, m, d) * DayLength

RECURSIVE StrLessFrom(_, _, _)
StrLessFrom(a, b, i) ==
  IF i > Len(a) THEN i <= Len(b)
  ELSE IF i > Len(b) THEN FALSE
  ELSE IF a[i] # b[i] THEN a[i] < b[i]
  ELSE StrLessFrom(a, b, i + 1)

\* a < b on strings
StrLess(a, b) == StrLessFrom(a, b, 1)

Abs(x) == IF x < 0 THEN -x ELSE x

\* Math.ceil(a / b) for a >= 0, b > 0
CeilDiv(a, b) == (a + b - 1) \div b

(***************************************************************************)
(* Bounds                                                                  *)
(***************************************************************************)
MaxLoads == 2
StatusSpan == 9
DurationSpan == 98
MaxTemplates == 2

\* the first day of the date windows
BaseDay == DaysFromCivil(2023, 12, 27)

IsoOfDay(n) == LET c == CivilFromDays(n) IN IsoDate(c[1], c[2], c[3])

StatusDates == { IsoOfDay(BaseDay + k) : k \in 0..StatusSpan }
DurationDates == { IsoOfDay(BaseDay + k) : k \in 0..DurationSpan }

(***************************************************************************)
(* The backend behind @/lib/planDatabase: rows in the storage schema.      *)
(***************************************************************************)
daysOfWeek == << "Monday", "Tuesday", "Wednesday", "Thursday", "Friday", "Saturday", "Sunday" >>

Days == { daysOfWeek[i] : i \in 1..Len(daysOfWeek) }

TemplateIds == { "t1", "t2" }

\* the values a schedule slot can hold; a missing key reads as undefined
SlotValues == { NULL, Str("") } \cup { Str(t) : t \in TemplateIds }

Schedules == UNION { [ S -> SlotValues ] : S \in SUBSET Days }

PlanRow(pid, cid, start, end, sched) ==
  [ id |-> pid, client_id |-> cid, trainer_id |-> "tr1", name |-> "Plan " \o pid,
    start_date |-> start, end_date |-> end, schedule_data |-> sched,
    created_at |-> "2023-12-01T08:00:00Z", updated_at |-> "2023-12-02T08:00:00Z" ]

ExampleSchedule ==
  [ d \in Days |-> IF d = "Monday" THEN Str("t1")
                   ELSE IF d = "Wednesday" THEN Str("t2") ELSE NULL ]

SparseSchedule ==
  [ d \in { "Monday", "Friday", "Sunday" } |->
      IF d = "Monday" THEN Str("t2") ELSE IF d = "Friday" THEN Str("") ELSE NULL ]

\* route ids: p1 and p2 have a plan, p0 has none
PlanIds == { "p0", "p1", "p2" }

\* getWorkoutPlan(id): the plan row, or null
getWorkoutPlan(pid) ==
  IF pid = "p1" THEN PlanRow("p1", "c1", IsoDate(2024, 1, 1), IsoDate(2024, 4, 1), ExampleSchedule)
  ELSE IF pid = "p2" THEN PlanRow("p2", "c2", IsoDate(2023, 12, 28), IsoDate(2024, 1, 3), SparseSchedule)
  ELSE NULL

ClientRow(cid, tid) ==
  [ id |-> cid, full_name |-> "Client " \o cid, email |-> cid \o "@example.com",
    avatar |-> "a-" \o cid, created_at |-> "2023-11-01T08:00:00Z", trainer_id |-> tid ]

\* getTrainerClients(): the roster
getTrainerClients == << ClientRow("c1", Str("tr1")), ClientRow("c2", NULL) >>

TemplateRow(tid, nm) == [ id |-> Str(tid), name |-> nm ]

\* getWorkoutTemplatesForPlans(): the catalog
getWorkoutTemplatesForPlans == << TemplateRow("t1", Str("Leg Day")), TemplateRow("t2", Str("Push Day")) >>

(***************************************************************************)
(* State                                                                   *)
(***************************************************************************)
VARIABLES
  id,              \* route parameter (useLocalSearchParams)
  plan,            \* useState<WorkoutPlan | null>
  client,          \* useState<Client | null>
  templates,       \* useState<any[]>
  loading,         \* useState(true)
  showNotesModal,  \* useState(false)
  loads,           \* the calls of loadPlanDetails, in the order they started
  router,          \* the last call made on the router
  alert,           \* the alert dialog last presented by Alert.alert
  now,             \* the clock, in seconds since the epoch
  view             \* the result of the last call of a derivation

vars == << id, plan, client, templates, loading, showNotesModal, loads, router, alert, now, view >>

screenState == << plan, client, templates, loading, showNotesModal >>

NoView == [ t |-> "none" ]

FetchOrder == << "getWorkoutPlan", "getTrainerClients", "getWorkoutTemplatesForPlans" >>

Fetches == { FetchOrder[i] : i \in 1..Len(FetchOrder) }

\* array.find(pred): the first element satisfying pred, else undefined
RECURSIVE FindFrom(_, _, _, _)
FindFrom(arr, key, val, i) ==
  IF i > Len(arr) THEN UNDEFINED
  ELSE IF arr[i][key] = val THEN arr[i]
  ELSE FindFrom(arr, key, val, i + 1)

Find(arr, key, val) == FindFrom(arr, key, val, 1)

\* the field mapping of the plan row (storage schema to display schema)
MapPlan(planData) ==
  [ id |-> planData.id, clientId |-> planData.client_id, trainerId |-> planData.trainer_id,
    name |-> planData.name, startDate |-> planData.start_date, endDate |-> planData.end_date,
    schedule |-> planData.schedule_data,
    createdAt |-> planData.created_at, updatedAt |-> planData.updated_at ]

\* the field mapping of the client row, or null when the roster lacks the client
MapClient(clients, cid) ==
  LET clientData == Find(clients, "id", cid)
  IN IF Truthy(clientData)
     THEN [ id |-> clientData.id, name |-> clientData.full_name, email |-> clientData.email,
            avatar |-> clientData.avatar, joinDate |-> clientData.created_at,
            trainerId |-> IF Truthy(clientData.trainer_id) THEN clientData.trainer_id.v ELSE "" ]
     ELSE NULL

Init ==
  /\ id \in PlanIds
  /\ plan = NULL
  /\ client = NULL
  /\ templates = << >>
  /\ loading = TRUE
  /\ showNotesModal = FALSE
  /\ loads = << >>
  /\ router = "none"
  /\ alert = "none"
  /\ now = (BaseDay + 3) * DayLength
  /\ view = NoView

(***************************************************************************)
(* useEffect(() => { loadPlanDetails(); }, [id]) and loadPlanDetails.      *)
(* A load is a record: the id its closure captured, the fetch it awaits    *)
(* (pc), the plan row it received, and how it ended.  Each action below    *)
(* is one continuation of the async function, run to its next await.       *)
(***************************************************************************)
NewLoad(pid) == [ id |-> pid, pc |-> "getWorkoutPlan", planData |-> NULL, outcome |-> "pending" ]

\* first run of the effect, after the first render
Mount ==
  /\ Len(loads) = 0
  /\ loads' = Append(loads, NewLoad(id))
  /\ UNCHANGED << id, plan, client, templates, loading, showNotesModal, router, alert, now, view >>

\* the route parameter changes and the effect runs again
ChangeId(newId) ==
  /\ Len(loads) >= 1
  /\ Len(loads) < MaxLoads
  /\ newId # id
  /\ id' = newId
  /\ loads' = Append(loads, NewLoad(newId))
  /\ UNCHANGED << plan, client, templates, loading, showNotesModal, router, alert, now, view >>

\* getWorkoutPlan resolves: lines 40-56, or 40-41 and the finally block when null
PlanResolved(i) ==
  /\ loads[i].pc = "getWorkoutPlan"
  /\ LET planData == getWorkoutPlan(loads[i].id)
     IN IF Truthy(planData)
        THEN /\ plan' = MapPlan(planData)
             /\ loads' = [ loads EXCEPT ![i].pc = "getTrainerClients", ![i].planData = planData ]
             /\ UNCHANGED loading
        ELSE /\ loading' = FALSE
             /\ loads' = [ loads EXCEPT ![i].pc = "done", ![i].outcome = "absent" ]
             /\ UNCHANGED plan
  /\ UNCHANGED << id, client, templates, showNotesModal, router, alert, now, view >>

\* getTrainerClients resolves: lines 56-72
ClientsResolved(i) ==
  /\ loads[i].pc = "getTrainerClients"
  /\ client' = MapClient(getTrainerClients, loads[i].planData.client_id)
  /\ loads' = [ loads EXCEPT ![i].pc = "getWorkoutTemplatesForPlans" ]
  /\ UNCHANGED << id, plan, templates, loading, showNotesModal, router, alert, now, view >>

\* getWorkoutTemplatesForPlans resolves: lines 72-76 and the finally block
TemplatesResolved(i) ==
  /\ loads[i].pc = "getWorkoutTemplatesForPlans"
  /\ templates' = getWorkoutTemplatesForPlans
  /\ loading' = FALSE
  /\ loads' = [ loads EXCEPT ![i].pc = "done", ![i].outcome = "loaded" ]
  /\ UNCHANGED << id, plan, client, showNotesModal, router, alert, now, view >>

\* variant: the loading flag is cleared on the success paths only
FetchRejected_keepsLoading(i) ==
  /\ loads[i].pc \in Fetches
  /\ loads' = [ loads EXCEPT ![i].pc = "done", ![i].outcome = "error:" \o loads[i].pc ]
  /\ UNCHANGED << id, plan, client, templates, loading, showNotesModal, router, alert, now, view >>

\* the awaited fetch rejects: the catch block, then the finally block
FetchRejected(i) ==
  /\ loads[i].pc \in Fetches
  /\ loading' = FALSE
  /\ loads' = [ loads EXCEPT ![i].pc = "done", ![i].outcome = "error:" \o loads[i].pc ]
  /\ UNCHANGED << id, plan, client, templates, showNotesModal, router, alert, now, view >>

\* the fetch a load awaits settles, one way or the other
Settle(i) ==
  /\ i \in 1..Len(loads)
  /\ PlanResolved(i) \/ ClientsResolved(i) \/ TemplatesResolved(i) \/ FetchRejected(i)

(***************************************************************************)
(* What the component renders, lines 168-192                               *)
(***************************************************************************)
Screen ==
  IF loading THEN "Loading"
  ELSE IF ~Truthy(plan) THEN "Plan Not Found"
  ELSE "Plan Details"

\* plan?.id inside a template literal
PlanIdText == IF Truthy(plan) THEN plan.id ELSE "undefined"

\* plan.schedule[day]
Slot(p, day) == IF day \in DOMAIN p.schedule THEN p.schedule[day] ELSE UNDEFINED

(***************************************************************************)
(* The derivations                                                         *)
(***************************************************************************)
getTemplateName(templateId) ==
  IF ~Truthy(templateId) THEN "Rest Day"
  ELSE LET template == Find(templates, "id", templateId)
       IN IF Truthy(template) /\ Truthy(template.name) THEN template.name.v
          ELSE "Unknown Template"

\* variant: an absent plan falls through to the last branch
getPlanStatus_absentIsActive ==
  IF ~Truthy(plan) THEN [ status |-> "Active", color |-> "primary" ]
  ELSE LET today == ToISODate(now)
       IN IF StrLess(plan.endDate, today) THEN [ status |-> "Completed", color |-> "success" ]
          ELSE IF StrLess(today, plan.startDate) THEN [ status |-> "Upcoming", color |-> "warning" ]
          ELSE [ status |-> "Active", color |-> "primary" ]

\* variant: the Upcoming test is made before the Completed test
getPlanStatus_upcomingFirst ==
  IF ~Truthy(plan) THEN [ status |-> "Unknown", color |-> "textSecondary" ]
  ELSE LET today == ToISODate(now)
       IN IF StrLess(today, plan.startDate) THEN [ status |-> "Upcoming", color |-> "warning" ]
          ELSE IF StrLess(plan.endDate, today) THEN [ status |-> "Completed", color |-> "success" ]
          ELSE [ status |-> "Active", color |-> "primary" ]

getPlanStatus ==
  IF ~Truthy(plan) THEN [ status |-> "Unknown", color |-> "textSecondary" ]
  ELSE LET today == ToISODate(now)
       IN IF StrLess(plan.endDate, today) THEN [ status |-> "Completed", color |-> "success" ]
          ELSE IF StrLess(today, plan.startDate) THEN [ status |-> "Upcoming", color |-> "warning" ]
          ELSE [ status |-> "Active", color |-> "primary" ]

\* variant: the month branch starts after 30 days instead of at 30 days
getDuration_monthAfter30 ==
  IF ~Truthy(plan) THEN ""
  ELSE LET start == DateGetTime(plan.startDate)
           end == DateGetTime(plan.endDate)
           diffTime == Abs(end - start)
           diffDays == CeilDiv(diffTime, DayLength)
       IN IF diffDays < 7 THEN ToString(diffDays) \o " days"
          ELSE IF diffDays <= 30
               THEN LET weeks == diffDays \div 7
                    IN ToString(weeks) \o " week" \o (IF weeks > 1 THEN "s" ELSE "")
               ELSE LET months == diffDays \div 30
                    IN ToString(months) \o " month" \o (IF months > 1 THEN "s" ELSE "")

getDuration ==
  IF ~Truthy(plan) THEN ""
  ELSE LET start == DateGetTime(plan.startDate)
           end == DateGetTime(plan.endDate)
           diffTime == Abs(end - start)
           diffDays == CeilDiv(diffTime, DayLength)
       IN IF diffDays < 7 THEN ToString(diffDays) \o " days"
          ELSE IF diffDays < 30
               THEN LET weeks == diffDays \div 7
                    IN ToString(weeks) \o " week" \o (IF weeks > 1 THEN "s" ELSE "")
               ELSE LET months == diffDays \div 30
                    IN ToString(months) \o " month" \o (IF months > 1 THEN "s" ELSE "")

\* variant: counts the slots that are not null instead of the truthy ones
getWorkoutsPerWeek_nonNull ==
  IF ~Truthy(plan) THEN 0
  ELSE Cardinality({ k \in DOMAIN plan.schedule : plan.schedule[k] # NULL })

getWorkoutsPerWeek ==
  IF ~Truthy(plan) THEN 0
  ELSE Cardinality({ k \in DOMAIN plan.schedule : Truthy(plan.schedule[k]) })

\* a render pass calls the three plan derivations
Derive ==
  /\ view' = [ t |-> "derived", status |-> getPlanStatus, duration |-> getDuration,
               workoutsPerWeek |-> getWorkoutsPerWeek ]
  /\ UNCHANGED << id, plan, client, templates, loading, showNotesModal, loads, router, alert, now >>

\* a schedule row calls getTemplateName
CallGetTemplateName(templateId) ==
  /\ view' = [ t |-> "templateName", templateId |-> templateId, name |-> getTemplateName(templateId) ]
  /\ UNCHANGED << id, plan, client, templates, loading, showNotesModal, loads, router, alert, now >>

\* time passes
Tick ==
  /\ now + HalfDay < (BaseDay + StatusSpan + 1) * DayLength
  /\ now' = now + HalfDay
  /\ UNCHANGED << id, plan, client, templates, loading, showNotesModal, loads, router, alert, view >>

(***************************************************************************)
(* User actions.  The buttons exist only on the Plan Details screen; an    *)
(* alert dialog or the notes modal covers the buttons beneath it.          *)
(***************************************************************************)
ButtonsReachable == Screen = "Plan Details" /\ alert = "none" /\ ~showNotesModal

\* header "more" button: Alert.alert('Plan Options', ...), lines 202-213
PressPlanOptions ==
  /\ ButtonsReachable
  /\ alert' = "Plan Options"
  /\ UNCHANGED << id, plan, client, templates, loading, showNotesModal, loads, router, now, view >>

\* the Cancel button of an alert, or the OK button of a Success alert
DismissAlert ==
  /\ alert # "none"
  /\ alert' = "none"
  /\ UNCHANGED << id, plan, client, templates, loading, showNotesModal, loads, router, now, view >>

\* from the Edit Plan action button or the Plan Options alert
handleEditPlan ==
  /\ ButtonsReachable \/ alert = "Plan Options"
  /\ router' = "push /create-plan?edit=" \o PlanIdText
  /\ alert' = "none"
  /\ UNCHANGED << id, plan, client, templates, loading, showNotesModal, loads, now, view >>

handleDuplicatePlan ==
  /\ alert = "Plan Options"
  /\ router' = "push /create-plan?duplicate=" \o PlanIdText
  /\ alert' = "none"
  /\ UNCHANGED << id, plan, client, templates, loading, showNotesModal, loads, now, view >>

handleDeletePlan ==
  /\ alert = "Plan Options"
  /\ alert' = "Delete Plan"
  /\ UNCHANGED << id, plan, client, templates, loading, showNotesModal, loads, router, now, view >>

\* variant: the Delete button also drops the loaded plan
DeleteConfirmed_dropsPlan ==
  /\ alert = "Delete Plan"
  /\ alert' = "Success: Plan deleted successfully"
  /\ router' = "back"
  /\ plan' = NULL
  /\ UNCHANGED << id, client, templates, loading, showNotesModal, loads, now, view >>

\* the Delete button of the Delete Plan alert, lines 145-149
DeleteConfirmed ==
  /\ alert = "Delete Plan"
  /\ alert' = "Success: Plan deleted successfully"
  /\ router' = "back"
  /\ UNCHANGED << id, plan, client, templates, loading, showNotesModal, loads, now, view >>

\* the Start button of a schedule row is rendered, lines 260-261 and 275
hasWorkout(day) == Slot(plan, day) # NULL

handleStartWorkout(day) ==
  /\ ButtonsReachable
  /\ hasWorkout(day)
  /\ LET templateId == Slot(plan, day)
     IN router' = IF Truthy(templateId) THEN "push /start-workout/" \o templateId.v ELSE router
  /\ UNCHANGED << id, plan, client, templates, loading, showNotesModal, loads, alert, now, view >>

\* a render pass of the Plan Details screen lays out the Workouts/Week figure
\* and the seven schedule rows: the name shown and whether Start is shown
RenderSchedule ==
  /\ Screen = "Plan Details"
  /\ view' = [ t |-> "schedule",
               workoutsPerWeek |-> getWorkoutsPerWeek,
               rows |-> [ day \in Days |->
                            [ name |-> getTemplateName(Slot(plan, day)),
                              start |-> hasWorkout(day) ] ] ]
  /\ UNCHANGED << id, plan, client, templates, loading, showNotesModal, loads, router, alert, now >>

\* Add Notes action button, line 321
OpenNotes ==
  /\ ButtonsReachable
  /\ showNotesModal' = TRUE
  /\ UNCHANGED << id, plan, client, templates, loading, loads, router, alert, now, view >>

\* the X button of the notes modal, or onRequestClose
CloseNotes ==
  /\ showNotesModal
  /\ alert = "none"
  /\ showNotesModal' = FALSE
  /\ UNCHANGED << id, plan, client, templates, loading, loads, router, alert, now, view >>

handleSaveNotes ==
  /\ showNotesModal
  /\ alert = "none"
  /\ alert' = "Success: Notes saved successfully"
  /\ showNotesModal' = FALSE
  /\ UNCHANGED << id, plan, client, templates, loading, loads, router, now, view >>

\* router.back() from the header or from the Plan Not Found screen
GoBack ==
  /\ ButtonsReachable \/ (Screen = "Plan Not Found" /\ alert = "none")
  /\ router' = "back"
  /\ UNCHANGED << id, plan, client, templates, loading, showNotesModal, loads, alert, now, view >>

UserAction ==
  \/ PressPlanOptions
  \/ DismissAlert
  \/ handleEditPlan
  \/ handleDuplicatePlan
  \/ handleDeletePlan
  \/ DeleteConfirmed
  \/ \E day \in Days : handleStartWorkout(day)
  \/ OpenNotes
  \/ CloseNotes
  \/ handleSaveNotes
  \/ GoBack

(***************************************************************************)
(* The screen: loads and user actions                                      *)
(***************************************************************************)
Next ==
  \/ Mount
  \/ \E newId \in PlanIds : ChangeId(newId)
  \/ \E i \in 1..Len(loads) : PlanResolved(i)
  \/ \E i \in 1..Len(loads) : ClientsResolved(i)
  \/ \E i \in 1..Len(loads) : TemplatesResolved(i)
  \/ \E i \in 1..Len(loads) : FetchRejected(i)
  \/ UserAction

Spec == Init /\ [][Next]_vars

\* every fetch that is awaited settles
LiveSpec == Spec /\ \A i \in 1..MaxLoads : WF_vars(Settle(i))

(***************************************************************************)
(* The derivations on their own: the screen after a load has ended, for    *)
(* every plan row (or template catalog) of a bounded set of backends.      *)
(***************************************************************************)
\* the state a load of planData leaves when all three fetches succeed
Loaded(planData, catalog) ==
  /\ id = planData.id
  /\ plan = MapPlan(planData)
  /\ client = MapClient(getTrainerClients, planData.client_id)
  /\ templates = catalog
  /\ loading = FALSE
  /\ showNotesModal = FALSE
  /\ loads = << [ id |-> planData.id, pc |-> "done", planData |-> planData, outcome |-> "loaded" ] >>
  /\ router = "none"
  /\ alert = "none"
  /\ view = NoView

\* the state a load leaves when the backend has no plan for the id
NotFound ==
  /\ id = "p0"
  /\ plan = NULL
  /\ client = NULL
  /\ templates = << >>
  /\ loading = FALSE
  /\ showNotesModal = FALSE
  /\ loads = << [ id |-> "p0", pc |-> "done", planData |-> NULL, outcome |-> "absent" ] >>
  /\ router = "none"
  /\ alert = "none"
  /\ view = NoView

\* plan status: every start and end date of the window, the clock running through it
InitStatus ==
  /\ now = BaseDay * DayLength
  /\ \/ NotFound
     \/ \E s \in StatusDates, e \in StatusDates :
          Loaded(PlanRow("p1", "c1", s, e, ExampleSchedule), getWorkoutTemplatesForPlans)

NextStatus == Tick \/ Derive

SpecStatus == InitStatus /\ [][NextStatus]_vars

\* duration: every start and end date of the longer window
InitDuration ==
  /\ now = BaseDay * DayLength
  /\ \/ NotFound
     \/ \E s \in DurationDates, e \in DurationDates :
          Loaded(PlanRow("p1", "c1", s, e, ExampleSchedule), getWorkoutTemplatesForPlans)

NextDuration == Derive

SpecDuration == InitDuration /\ [][NextDuration]_vars

\* workouts per week: every schedule over the seven weekdays
InitSchedule ==
  /\ now = BaseDay * DayLength
  /\ \/ NotFound
     \/ \E sched \in Schedules :
          Loaded(PlanRow("p1", "c1", IsoDate(2024, 1, 1), IsoDate(2024, 4, 1), sched),
                 getWorkoutTemplatesForPlans)

NextSchedule == Derive

SpecSchedule == InitSchedule /\ [][NextSchedule]_vars

\* schedule rows: every schedule over the seven weekdays, rendered and pressed
NextRows == RenderSchedule \/ \E day \in Days : handleStartWorkout(day)

SpecRows == InitSchedule /\ [][NextRows]_vars

\* template names: every catalog of up to MaxTemplates rows
TemplateNames == { Str(""), Str("Leg Day"), Str("Push Day") }

TemplateRows == { TemplateRow(tid, nm) : tid \in TemplateIds, nm \in TemplateNames }

Catalogs == UNION { [ 1..n -> TemplateRows ] : n \in 0..MaxTemplates }

\* the template ids getTemplateName is called with
TemplateIdArgs == { NULL, UNDEFINED, Str(""), Str("t9") } \cup { Str(tid) : tid \in TemplateIds }

InitTemplates ==
  /\ now = BaseDay * DayLength
  /\ \E catalog \in Catalogs : Loaded(getWorkoutPlan("p1"), catalog)

NextTemplates == \E templateId \in TemplateIdArgs : CallGetTemplateName(templateId)

SpecTemplates == InitTemplates /\ [][NextTemplates]_vars

(***************************************************************************)
(* Properties                                                              *)
(***************************************************************************)
\* the UTC day number of the clock, and of a date of the windows (found by
\* formatting each day of the window, not by parsing the string)
Today == now \div DayLength

DayOf(s) == CHOOSE n \in BaseDay..(BaseDay + DurationSpan + 1) : IsoOfDay(n) = s

Derived == view.t = "derived"

\* C1: for a loaded plan getPlanStatus returns Completed if endDate < today,
\* otherwise Upcoming if startDate > today, otherwise Active, the dates being
\* compared as strings; so a plan that ended before today is Completed even
\* when it starts after today, and a plan with startDate <= today <= endDate
\* is Active.
C1_StatusOrder ==
  [][ (Derive /\ Truthy(plan)) =>
        LET today == ToISODate(now)
            st == view'.status.status
        IN /\ st = IF StrLess(plan.endDate, today) THEN "Completed"
                   ELSE IF StrLess(today, plan.startDate) THEN "Upcoming"
                   ELSE "Active"
           /\ DayOf(plan.endDate) < Today => st = "Completed"
           /\ (DayOf(plan.endDate) >= Today /\ DayOf(plan.startDate) > Today) => st = "Upcoming"
           /\ (DayOf(plan.startDate) <= Today /\ Today <= DayOf(plan.endDate)) => st = "Active"
    ]_vars

\* a plan that ended before today and starts after today has been classified
C1_Witness ==
  /\ Derived
  /\ Truthy(plan)
  /\ DayOf(plan.endDate) < Today
  /\ DayOf(plan.startDate) > Today
  /\ view.status.status = "Completed"

\* the absolute difference in whole days between the plan's two dates
DayDiff == Abs(DayOf(plan.endDate) - DayOf(plan.startDate))

UnitWords == { "day", "week", "month" }

\* C3: in the string returned by getDuration the unit word carries a trailing
\* "s" exactly when the unit count is greater than 1, for days, weeks and
\* months alike; a 1-day difference yields "1 day".
C3_PluralExactlyWhenAboveOne ==
  (Derived /\ Truthy(plan)) =>
    /\ view.duration \in { ToString(n) \o " " \o u \o (IF n > 1 THEN "s" ELSE "") :
                             n \in 0..(DurationSpan + 1), u \in UnitWords }
    /\ DayDiff = 1 => view.duration = "1 day"

\* C4: getDuration reports d, the absolute difference in whole days between
\* startDate and endDate: d in days when d < 7, floor(d / 7) in weeks when
\* 7 <= d < 30, floor(d / 30) in months when d >= 30; d = 2 gives 2 days,
\* d = 14 gives 2 weeks, d = 29 gives 4 weeks, d = 30 gives 1 month and
\* d = 91 gives 3 months.  (The count and the unit; the plural ending is C3.)
C4_DurationUnits ==
  (Derived /\ Truthy(plan)) =>
    LET d == DayDiff
        n == IF d < 7 THEN d ELSE IF d < 30 THEN d \div 7 ELSE d \div 30
        u == IF d < 7 THEN "day" ELSE IF d < 30 THEN "week" ELSE "month"
    IN /\ view.duration \in { ToString(n) \o " " \o u, ToString(n) \o " " \o u \o "s" }
       /\ d = 2 => view.duration = "2 days"
       /\ d = 14 => view.duration = "2 weeks"
       /\ d = 29 => view.duration = "4 weeks"
       /\ d = 30 => view.duration = "1 month"
       /\ d = 91 => view.duration = "3 months"

\* the duration of 2024-04-01 back to 2024-01-01 (start after end) is 3 months
C4_Witness ==
  /\ Derived
  /\ Truthy(plan)
  /\ plan.startDate = IsoDate(2024, 4, 1)
  /\ plan.endDate = IsoDate(2024, 1, 1)
  /\ view.duration = "3 months"

\* C5: getTemplateName returns "Rest Day" when the id is null or absent;
\* otherwise, when some template of the list has that id, that template's
\* name, whatever the name is and wherever the template sits; otherwise
\* "Unknown Template".  (An empty id is read as an absent one.)
C5_TemplateNameLookup ==
  view.t = "templateName" =>
    LET tid == view.templateId
        hits == { i \in 1..Len(templates) : templates[i].id = tid }
    IN IF tid = NULL \/ tid = UNDEFINED \/ tid = Str("") THEN view.name = "Rest Day"
       ELSE IF hits # {}
            THEN \E i \in hits : templates[i].name = Str(view.name)
            ELSE view.name = "Unknown Template"

\* C8: for a loaded plan getWorkoutsPerWeek is the number of the seven weekday
\* slots of plan.schedule whose value is truthy (not null, undefined or the
\* empty string); it is 2 for {Monday: t1, Wednesday: t2, others null} and
\* always between 0 and 7.
C8_WorkoutsPerWeek ==
  (Derived /\ Truthy(plan)) =>
    /\ view.workoutsPerWeek =
         Cardinality({ i \in 1..Len(daysOfWeek) :
                         LET v == Slot(plan, daysOfWeek[i])
                         IN v # NULL /\ v # UNDEFINED /\ v # Str("") })
    /\ view.workoutsPerWeek \in 0..7
    /\ plan.schedule = ExampleSchedule => view.workoutsPerWeek = 2

\* the example schedule has been counted
C8_Witness ==
  /\ Derived
  /\ Truthy(plan)
  /\ plan.schedule = ExampleSchedule
  /\ view.workoutsPerWeek = 2

\* a schedule with a missing key, an empty string and a null has been counted
C8_WitnessFalsy ==
  /\ Derived
  /\ Truthy(plan)
  /\ plan.schedule = SparseSchedule
  /\ view.workoutsPerWeek = 1

\* C9: when no plan is loaded getPlanStatus returns the status "Unknown",
\* getDuration the empty string and getWorkoutsPerWeek 0; none of Completed,
\* Upcoming or Active is returned for an absent plan.
C9_AbsentPlanFailsSoft ==
  [][ (Derive /\ plan = NULL) =>
        /\ view'.status.status = "Unknown"
        /\ view'.status.status \notin { "Completed", "Upcoming", "Active" }
        /\ view'.duration = ""
        /\ view'.workoutsPerWeek = 0
    ]_vars

\* the derivations have been called on the Plan Not Found screen
C9_Witness ==
  /\ Derived
  /\ plan = NULL
  /\ Screen = "Plan Not Found"
  /\ view.status.status = "Unknown"

ErrorOutcomes == { "error:" \o f : f \in Fetches }

AllLoadsEnded == \A i \in 1..Len(loads) : loads[i].pc = "done"

\* C2: when any one of the three fetches of a load fails, the screen ends in
\* the Plan Not Found state (loading false, plan null), whichever fetch it is.
C2_AnyFailureShowsNotFound ==
  \A i \in 1..Len(loads) :
    (loads[i].outcome \in ErrorOutcomes /\ AllLoadsEnded) =>
      (~loading /\ plan = NULL /\ Screen = "Plan Not Found")

\* the loads that have a fetch in flight
InFlight == { i \in 1..Len(loads) : loads[i].pc \in Fetches }

\* C6: at no moment are two fetches of the screen in flight, also when the
\* route parameter id changes while a load is running.
C6_OneFetchAtATime == Cardinality(InFlight) <= 1

LoadEnded(i) == Len(loads) >= i /\ loads[i].pc = "done"

\* C7: every load that starts eventually clears the loading flag, given that
\* each fetch it issues settles, on each of its paths (loaded, plan absent,
\* a fetch failed); and the flag is true from the creation of the screen
\* until the first load ends.
C7_LoadingCleared ==
  /\ \A i \in 1..MaxLoads : (Len(loads) >= i) ~> (LoadEnded(i) /\ ~loading)
  /\ [](loading <=> (\A i \in 1..Len(loads) : loads[i].pc # "done"))

\* a load has ended on the failure path with the flag cleared
C7_Witness ==
  /\ LoadEnded(1)
  /\ loads[1].outcome \in ErrorOutcomes
  /\ ~loading

\* C10: edit plan, duplicate plan, delete plan (its confirmed Delete branch
\* included) and save notes start no fetch and leave the loaded plan, client
\* and template list unchanged; they only navigate, present alerts and close
\* the notes modal.
C10_HandlersDoNotWrite ==
  [][ (handleEditPlan \/ handleDuplicatePlan \/ handleDeletePlan \/ DeleteConfirmed \/ handleSaveNotes) =>
        /\ UNCHANGED << id, plan, client, templates, loading, loads, now, view >>
        /\ showNotesModal' = showNotesModal \/ showNotesModal' = FALSE
    ]_vars

\* the Delete branch has run and the plan is still loaded
C10_Witness ==
  /\ alert = "Success: Plan deleted successfully"
  /\ router = "back"
  /\ Truthy(plan)
  /\ Truthy(client)
  /\ templates # << >>

\* the load started for the most recent route id
LastLoad == loads[Len(loads)]

\* C11: once every started load has settled, the screen shows the data of the
\* most recent route id and nothing older: the plan fetched for that id, or
\* Plan Not Found when that id has no plan or its load failed, and a displayed
\* client is the client of the displayed plan.
C11_ShowsLatestId ==
  (Len(loads) >= 1 /\ AllLoadsEnded) =>
    /\ LastLoad.id = id
    /\ IF LastLoad.outcome = "loaded"
       THEN Screen = "Plan Details" /\ plan = MapPlan(getWorkoutPlan(id))
       ELSE Screen = "Plan Not Found"
    /\ (Truthy(plan) /\ Truthy(client)) => client.id = plan.clientId

NoLoadFailed == \A i \in 1..Len(loads) : loads[i].outcome \notin ErrorOutcomes

\* C11, its last sentence alone and only for runs in which no fetch fails:
\* with all loads settled, no plan of another route id and no client of
\* another plan is on the screen.
C11_NothingOlder ==
  (Len(loads) >= 1 /\ AllLoadsEnded /\ NoLoadFailed) =>
    /\ Truthy(plan) => plan.id = id
    /\ (Truthy(plan) /\ Truthy(client)) => client.id = plan.clientId

\* pressing the Start button of a day's row makes a router call
\* (read in a state where the router has not been called yet)
Navigates(day) == ENABLED (handleStartWorkout(day) /\ router' # "none")

\* C12: in the weekly schedule of a displayed plan, for each of the seven
\* weekdays and every slot value, the Start button is shown if and only if
\* getTemplateName does not return "Rest Day", if and only if pressing Start
\* navigates to the start-workout route; and the number of weekdays showing a
\* Start button equals getWorkoutsPerWeek.
C12_ScheduleViewsAgree ==
  (view.t = "schedule" /\ router = "none") =>
    /\ \A day \in Days :
         /\ view.rows[day].start <=> (view.rows[day].name # "Rest Day")
         /\ view.rows[day].start <=> Navigates(day)
    /\ Cardinality({ day \in Days : view.rows[day].start }) = view.workoutsPerWeek

====
